---- MODULE Spec2Model ----
(***************************************************************************)
(* mazemaster: the maze-solving engine (grid model, BFS exit enumeration,  *)
(* bounded DFS longest-path search) and its job dispatcher (solution       *)
(* record, admission semaphore, worker pool, request handler).             *)
(*                                                                         *)
(* Representation.  A GridLocation is the pair <<col, row>>.  An           *)
(* ExcelCoordinate ("A1") is the pair <<letters, number>>, letters being   *)
(* the sequence of indices into string.ascii_uppercase (0 = "A") and       *)
(* number the decimal row number.  A GridNode is the sequence of the       *)
(* locations on its parent chain, root first, so node.location is the last *)
(* element, node.parent the sequence without it and, in the longest-path   *)
(* search, node.cost = Len(node) - 1.  Python's None is the empty          *)
(* sequence for the optional fields of a solution record.                  *)
(***************************************************************************)
EXTENDS Integers, Sequences, FiniteSets, TLC

----------------------------------------------------------------------------
(* Bounds of the model *)

MaxWidth == 3
MaxHeight == 3
MaxRequests == 2
RaceWidth == 2
RaceHeight == 2
MaxFaults == 1
MaxCol == 702
MaxRow == 10
MaxDim == 11
MaxWalls == 3
MaxCallers == 2
MaxUsers == 2
MaxCreated == 2
MaxSequential == 3

(* Program constants *)

solution_workers_max == 3
solution_tasks_max_in_queue == 2
MaxRecurDepth == 1000
MaxWhileCount == 100000000

None == <<>>

Range(s) == {s[i] : i \in DOMAIN s}

Reverse(s) == [i \in 1..Len(s) |-> s[Len(s) + 1 - i]]

----------------------------------------------------------------------------
(* Coordinate codec: gridmodels.py *)

\* divmod without the step back at an exact multiple of 26
divmod_plain(n) == <<n \div 26, n % 26>>

divmod_excel(n) ==
    LET a == n \div 26
        b == n % 26
    IN  IF b = 0 THEN <<a - 1, b + 26>> ELSE <<a, b>>

RECURSIVE to_excel_chars(_)
to_excel_chars(hnum) ==
    \* the while loop of to_excel: chars in the order they are appended
    IF hnum > 0
    THEN LET d == divmod_excel(hnum)
         IN  <<d[2] - 1>> \o to_excel_chars(d[1])
    ELSE <<>>

to_excel(num) == Reverse(to_excel_chars(num + 1))

RECURSIVE from_excel_reduce(_, _)
from_excel_reduce(r, chars) ==
    IF chars = <<>> THEN r
    ELSE from_excel_reduce(r * 26 + 1 + Head(chars), Tail(chars))

from_excel(chars) == from_excel_reduce(0, chars)

extracteinfo(excelstr) == <<from_excel(excelstr[1]) - 1, excelstr[2] - 1>>

glt(gltp) == <<to_excel(gltp[1]), gltp[2] + 1>>

----------------------------------------------------------------------------
(* Grid: gridmodels.py, SquareGrid *)

from_excel_array(width, height, walldata) ==
    [width |-> width, height |-> height,
     walls |-> {extracteinfo(w) : w \in walldata}]

passable_and_in_bounds(grid, loc) ==
    IF loc \in grid.walls THEN FALSE
    ELSE /\ 0 <= loc[1] /\ loc[1] < grid.width
         /\ 0 <= loc[2] /\ loc[2] < grid.height

allowed_neighbors(grid, loc) ==
    LET neighbors == << <<loc[1] + 1, loc[2]>>, <<loc[1] - 1, loc[2]>>,
                        <<loc[1], loc[2] - 1>>, <<loc[1], loc[2] + 1>> >>
    IN  SelectSeq(neighbors, LAMBDA k : passable_and_in_bounds(grid, k))

Abs(x) == IF x < 0 THEN -x ELSE x

manhattan_heuristic(a, b) == Abs(a[1] - b[1]) + Abs(a[2] - b[2])

\* sorted(..., key, reverse=True) is stable: equal keys keep their order
RECURSIVE SortedDesc(_, _)
SortedDesc(s, goal) ==
    IF s = <<>> THEN <<>>
    ELSE LET rest == SortedDesc(Tail(s), goal)
             k == manhattan_heuristic(Head(s), goal)
             before == SelectSeq(rest, LAMBDA x : manhattan_heuristic(x, goal) > k)
             after == SelectSeq(rest, LAMBDA x : manhattan_heuristic(x, goal) <= k)
         IN  before \o <<Head(s)>> \o after

get_sorted_neighbours_cached(grid, goal, current_location) ==
    SortedDesc(allowed_neighbors(grid, current_location), goal)

----------------------------------------------------------------------------
(* Search nodes and backtracking: gridmodels.py *)

NodeLocation(node) == node[Len(node)]

has_visited(node, location) ==
    \* the walk stops at the node without parent: the root is never added
    location \in {node[i] : i \in 2..Len(node)}

backtrack_node_to_start(node) == Reverse(node)

\* a list of the iterable: every occurrence, in order
ListOf(s) == s

\* OrderedSet(iterable): first occurrences, in order
RECURSIVE OrderedSet(_)
OrderedSet(s) ==
    IF s = <<>> THEN <<>>
    ELSE LET init == OrderedSet(SubSeq(s, 1, Len(s) - 1))
             last == s[Len(s)]
         IN  IF last \in Range(init) THEN init ELSE Append(init, last)

get_steps_as_excel_list(steps) ==
    [i \in 1..Len(steps) |-> glt(steps[Len(steps) - (i - 1)])]

----------------------------------------------------------------------------
(* Minimum solver: bfs.py, BFSSolver.search_all_available_exits *)

\* the loop on a frontier that pops what was pushed last
RECURSIVE bfs_loop_stack(_, _, _, _)
bfs_loop_stack(grid, frontier, explored, ret) ==
    IF frontier = <<>> THEN ret
    ELSE LET current_node == frontier[Len(frontier)]
             current_location == NodeLocation(current_node)
             ret2 == IF current_location[2] = grid.height - 1
                     THEN Append(ret, current_node) ELSE ret
             fresh == SelectSeq(allowed_neighbors(grid, current_location),
                                LAMBDA n : n \notin explored)
             pushed == [i \in 1..Len(fresh) |-> Append(current_node, fresh[i])]
         IN  bfs_loop_stack(grid, SubSeq(frontier, 1, Len(frontier) - 1) \o pushed,
                            explored \cup Range(fresh), ret2)

RECURSIVE bfs_loop(_, _, _, _)
bfs_loop(grid, frontier, explored, ret) ==
    IF frontier = <<>> THEN ret
    ELSE LET current_node == Head(frontier)
             current_location == NodeLocation(current_node)
             ret2 == IF current_location[2] = grid.height - 1
                     THEN Append(ret, current_node) ELSE ret
             fresh == SelectSeq(allowed_neighbors(grid, current_location),
                                LAMBDA n : n \notin explored)
             pushed == [i \in 1..Len(fresh) |-> Append(current_node, fresh[i])]
         IN  bfs_loop(grid, Tail(frontier) \o pushed, explored \cup Range(fresh), ret2)

\* the start checks with the bounds test in front of the wall test
start_check_bounds_first(grid, start) ==
    IF start[1] < 0 \/ start[2] >= grid.width THEN "StartOutOfBounds"
    ELSE IF start \in grid.walls THEN "StartInWall"
    ELSE "ok"

start_check(grid, start) ==
    IF start \in grid.walls THEN "StartInWall"
    ELSE IF start[1] < 0 \/ start[2] >= grid.width THEN "StartOutOfBounds"
    ELSE "ok"

search_all_available_exits(grid, start) ==
    LET chk == start_check(grid, start)
    IN  IF chk # "ok" THEN [exc |-> chk, exits |-> <<>>]
        ELSE [exc |-> "none", exits |-> bfs_loop(grid, << <<start>> >>, {}, <<>>)]

----------------------------------------------------------------------------
(* Maximum solver: dfs.py, DFSSolver.search_longest_path, and the checks of *)
(* astar.py, AstarSolver.create_reachable_map_min, that can abort it        *)

RootParent == <<-1, -1>>

goal_check(grid, goal) ==
    IF goal \in grid.walls THEN "GoalInWall"
    ELSE IF goal[1] < 0 \/ goal[2] >= grid.width THEN "GoalOutOfBounds"
    ELSE "ok"

\* sub_solved_maxpath: base location -> next location -> cost, kept as a
\* function on the pairs <<base location, next location>>
MemoHas(memo, pair) == pair \in DOMAIN memo /\ memo[pair] # 0

PathEdges(node) ==
    {<<RootParent, node[1], 0>>} \cup
    {<<node[i - 1], node[i], i - 1>> : i \in 2..Len(node)}

backtrack_into_memo(memo, node) ==
    LET edges == PathEdges(node)
        pairs == {<<e[1], e[2]>> : e \in edges}
        costOf(pair) == (CHOOSE e \in edges : <<e[1], e[2]>> = pair)[3]
    IN  [pair \in DOMAIN memo \cup pairs |->
            IF pair \notin pairs THEN memo[pair]
            ELSE IF MemoHas(memo, pair) /\ ~(memo[pair] < costOf(pair))
                 THEN memo[pair]
                 ELSE costOf(pair)]

\* grid.print(costs=getmaxdict(sub_solved_maxpath)): max() of an empty list
\* raises when colorama is importable and no recorded cost is positive
grid_print_raises(hasColorama, memo) ==
    /\ hasColorama
    /\ DOMAIN memo # {}
    /\ \A pair \in DOMAIN memo : ~(memo[pair] > 0)

\* the neighbours the for loop pushes, in the order it meets them
dfs_pushed(memo, base_node, shuffled_neighbors) ==
    LET current_location == NodeLocation(base_node)
        neigh_cost == (Len(base_node) - 1) + 1
        keep(neighbor) ==
            /\ ~has_visited(base_node, neighbor)
            /\ ~(/\ MemoHas(memo, <<current_location, neighbor>>)
                 /\ memo[<<current_location, neighbor>>] > neigh_cost)
        kept == SelectSeq(shuffled_neighbors, keep)
    IN  [i \in 1..Len(kept) |-> Append(base_node, kept[i])]

Shuffles(s) ==
    {[i \in 1..Len(s) |-> s[p[i]]] : p \in Permutations(1..Len(s))}

\* brk: the loop was left through the budget check; exc: the exception that
\* left search_longest_path
DfsIdle ==
    [frontier |-> <<>>, memo |-> <<>>, best |-> None, whilecount |-> 0, brk |-> FALSE,
     exc |-> "none"]

\* the statements of search_longest_path before the loop; exc # "none" when
\* one of them raises
dfs_enter(grid, start, goal) ==
    IF start_check(grid, start) # "ok"
    THEN [exc |-> start_check(grid, start), st |-> DfsIdle]
    ELSE IF goal_check(grid, goal) # "ok"
    THEN [exc |-> goal_check(grid, goal), st |-> DfsIdle]
    ELSE [exc |-> "none",
          st |-> [DfsIdle EXCEPT !.frontier = << <<start>> >>]]

\* an iteration that neither pops a frame nor counts
dfs_iteration_stuck(grid, goal, hasColorama, st) ==
    {[exc |-> "none", brk |-> FALSE, st |-> st]}

\* one iteration of the while loop on a non-empty frontier: the set of
\* [exc, brk, st] it can end in, one per shuffle
dfs_iteration(grid, goal, hasColorama, st) ==
    LET whilecount == st.whilecount + 1
        base_node == st.frontier[Len(st.frontier)]
        rest == SubSeq(st.frontier, 1, Len(st.frontier) - 1)
        recurdepth == Len(base_node)
        current_location == NodeLocation(base_node)
    IN  IF recurdepth >= MaxRecurDepth \/ whilecount >= MaxWhileCount
        THEN {[exc |-> "none", brk |-> TRUE,
               st |-> [st EXCEPT !.frontier = rest, !.whilecount = whilecount,
                                 !.brk = TRUE]]}
        ELSE IF goal = current_location
        THEN LET best == IF st.best = None \/ Len(st.best) - 1 < Len(base_node) - 1
                         THEN base_node ELSE st.best
                 memo == backtrack_into_memo(st.memo, base_node)
             IN  {[exc |-> IF grid_print_raises(hasColorama, memo)
                           THEN "ValueError" ELSE "none",
                   brk |-> FALSE,
                   st |-> [st EXCEPT !.frontier = rest, !.memo = memo,
                                     !.best = best, !.whilecount = whilecount]]}
        ELSE {[exc |-> "none", brk |-> FALSE,
               st |-> [st EXCEPT
                         !.frontier = rest \o dfs_pushed(st.memo, base_node, sh),
                         !.whilecount = whilecount]] :
                 sh \in Shuffles(get_sorted_neighbours_cached(grid, goal, current_location))}

----------------------------------------------------------------------------
(* State *)

VARIABLES
    maze,            \* the Maze record the requests ask about
    executor,        \* TRUE when the ThreadPoolExecutor could be instantiated
    colorama,        \* TRUE when colorama can be imported by SquareGrid.print
    semaphore,       \* value of the admission Semaphore
    faults,          \* storage failures the store may still answer with
    maze_solutions,  \* the maze_solutions table: key -> record
    req,             \* per request: position, steps, its MazeSolution object, response
    task,            \* per request: position of its solver coroutine, result, callback
    dfs,             \* per request: the locals of search_longest_path
    settings,        \* the Settings object: DETA_RUNTIME
    mazes_table,     \* the mazes table: key -> Maze record
    users_table,     \* the users table: the ids of the users that exist
    mazenums_assigned, \* history: <<owner_id, mazenum>> of each maze created, in order
    api,             \* per caller: position and locals of its maze handler
    call             \* a function applied to one input: name, input, output

mazeapi == <<settings, mazes_table, users_table, mazenums_assigned, api, call>>

vars == <<maze, executor, colorama, semaphore, faults, maze_solutions, req, task, dfs,
          settings, mazes_table, users_table, mazenums_assigned, api, call>>

Requests == 1..MaxRequests

Cells(w, h) == (0..(w - 1)) \X (0..(h - 1))

\* Maze inputs: every grid size up to W x H, every entrance label up to one
\* column or row beyond the grid, every set of wall labels on the grid's cells
\* and the entrance
MazeInputs(W, H) ==
    UNION {
      UNION {
        {[grid_size |-> <<w, h>>, entrance |-> glt(e),
          walls |-> {glt(x) : x \in ws}] :
            ws \in SUBSET (Cells(w, h) \cup {e})} :
        e \in (0..w) \X (0..h)} :
      w \in 1..W, h \in 1..H}

NoSolution ==
    [id |-> 0, status |-> "NEW", detected_exit |-> None,
     solution_min |-> None, solution_max |-> None]

\* MazeSolution(mazehash=...): the field defaults
NewSolution(id) == [NoSolution EXCEPT !.id = id]

NoResponse == [code |-> 0, path |-> None]

NoTask == [pc |-> "none", ret |-> None, cb |-> FALSE]

InitWith(mazes) ==
    /\ maze \in mazes
    /\ executor \in BOOLEAN
    /\ colorama \in BOOLEAN
    /\ semaphore = solution_tasks_max_in_queue
    /\ faults = MaxFaults
    /\ maze_solutions = <<>>
    /\ req = [r \in Requests |->
                [pc |-> "idle", steps |-> "min", solution |-> NoSolution,
                 response |-> NoResponse]]
    /\ task = [r \in Requests |-> NoTask]
    /\ dfs = [r \in Requests |-> DfsIdle]

----------------------------------------------------------------------------
(* Store: datapersistence.py *)

\* get_maze_solution_from_db_by_hash: the first record the store lists
get_solution_for_maze ==
    IF DOMAIN maze_solutions = {} THEN NoSolution
    ELSE maze_solutions[CHOOSE k \in DOMAIN maze_solutions :
                            \A j \in DOMAIN maze_solutions : k <= j]

\* MazeSolution.save -> _save: the whole object replaces the stored record
save(solution) == [maze_solutions EXCEPT ![solution.id] = solution]

----------------------------------------------------------------------------
(* Request handler: routers/mazes.py *)

InvalidStatuses ==
    {"INVALID_MULTIEXIT", "INVALID_NOEXIT", "INVALID_GEOMETRY",
     "INVALID_ENTRY_INWALL", "INVALID_ENTRY_OUTOFBOUNDS"}

\* the HTTP status raise_solution_error_if_needed raises, 0 when it returns
raise_solution_error_if_needed(solution, also_max_fail) ==
    IF also_max_fail /\ solution.status = "FAILED_MAX" THEN 422
    ELSE IF solution.status = "PROCESSING" THEN 409
    ELSE IF solution.status \in InvalidStatuses THEN 422
    ELSE IF solution.status = "SYSTEM_FAIL" THEN 500
    ELSE 0

\* res.result(timeout=8) blocks the thread of the event loop
LoopBlocked == \E r \in Requests : req[r].pc = "waiting"

Respond(r, code, path) ==
    req' = [req EXCEPT ![r].pc = "done",
                       ![r].response = [code |-> code, path |-> path]]

\* the slot of a finished request serves the next one once its task is over
SlotFree(r) ==
    /\ req[r].pc \in {"idle", "done"}
    /\ \/ task[r].pc = "none"
       \/ task[r].pc \in {"returned", "raised"} /\ (task[r].cb \/ ~executor)

\* a request arrives: get_mazesolution_by_mazenum up to the return of
\* MazeSolution.get_solution_for_maze
HGetSolution(r, steps) ==
    /\ SlotFree(r)
    /\ ~LoopBlocked
    /\ LET solution == get_solution_for_maze
       IN  req' = [req EXCEPT
                     ![r] = [pc |-> IF solution.id = 0 THEN "create" ELSE "check",
                             steps |-> steps, solution |-> solution,
                             response |-> NoResponse]]
    /\ task' = [task EXCEPT ![r] = NoTask]
    /\ UNCHANGED <<mazeapi, maze, executor, colorama, semaphore, faults, maze_solutions, dfs>>

\* MazeSolution(mazehash=...).create_new(): the key is a fresh uuid4, which the
\* store may list before or after the keys it holds; the first key is the
\* middle one
FreshKeys ==
    IF DOMAIN maze_solutions = {} THEN {MaxRequests}
    ELSE (1..(2 * MaxRequests - 1)) \ DOMAIN maze_solutions

HCreate(r) ==
    /\ req[r].pc = "create"
    /\ ~LoopBlocked
    /\ \E id \in FreshKeys :
          /\ maze_solutions' = (id :> NewSolution(id)) @@ maze_solutions
          /\ req' = [req EXCEPT ![r].pc = "check", ![r].solution = NewSolution(id)]
    /\ UNCHANGED <<mazeapi, maze, executor, colorama, semaphore, faults, task, dfs>>

\* an acquire that takes a permit whatever the value
semaphore_acquire_unchecked(value) == [proceed |-> TRUE, value |-> value - 1]

\* semaphore.acquire(blocking=False): whether a permit was taken, and the
\* value left
semaphore_acquire(value) ==
    IF value = 0 THEN [proceed |-> FALSE, value |-> value]
    ELSE [proceed |-> TRUE, value |-> value - 1]

\* a handler that calls trigger_solver although the requested path is stored
HCheckUncached(r) ==
    /\ req[r].pc = "check"
    /\ ~LoopBlocked
    /\ LET solution == req[r].solution
           steps == req[r].steps
           e1 == raise_solution_error_if_needed(solution, FALSE)
           e2 == raise_solution_error_if_needed(solution, TRUE)
       IN  IF e1 # 0
           THEN Respond(r, e1, None) /\ UNCHANGED <<semaphore, task>>
           ELSE IF steps = "max" /\ e2 # 0
           THEN Respond(r, e2, None) /\ UNCHANGED <<semaphore, task>>
           ELSE IF solution.status = "PROCESSING"
           THEN /\ req' = [req EXCEPT ![r].pc = "reread"]
                /\ UNCHANGED <<semaphore, task>>
           ELSE IF ~executor
           THEN /\ req' = [req EXCEPT ![r].pc = "inline"]
                /\ task' = [task EXCEPT ![r].pc = "begin"]
                /\ UNCHANGED semaphore
           ELSE IF ~semaphore_acquire(semaphore).proceed
           THEN Respond(r, 429, None) /\ UNCHANGED <<semaphore, task>>
           ELSE /\ semaphore' = semaphore_acquire(semaphore).value
                /\ task' = [task EXCEPT ![r].pc = "begin"]
                /\ req' = [req EXCEPT ![r].pc = "waiting"]
    /\ UNCHANGED <<mazeapi, maze, executor, colorama, faults, maze_solutions, dfs>>

\* get_mazesolution_by_mazenum from the first raise_solution_error_if_needed up
\* to the return of trigger_solver's synchronous part
HCheck(r) ==
    /\ req[r].pc = "check"
    /\ ~LoopBlocked
    /\ LET solution == req[r].solution
           steps == req[r].steps
           e1 == raise_solution_error_if_needed(solution, FALSE)
           e2 == raise_solution_error_if_needed(solution, TRUE)
       IN  IF e1 # 0
           THEN Respond(r, e1, None) /\ UNCHANGED <<semaphore, task>>
           ELSE IF steps = "max" /\ e2 # 0
           THEN Respond(r, e2, None) /\ UNCHANGED <<semaphore, task>>
           ELSE IF solution.solution_min # None /\ steps = "min"
           THEN Respond(r, 200, solution.solution_min) /\ UNCHANGED <<semaphore, task>>
           ELSE IF solution.solution_max # None /\ steps = "max"
           THEN Respond(r, 200, solution.solution_max) /\ UNCHANGED <<semaphore, task>>
           \* trigger_solver
           ELSE IF solution.status = "PROCESSING"
           THEN /\ req' = [req EXCEPT ![r].pc = "reread"]
                /\ UNCHANGED <<semaphore, task>>
           ELSE IF ~executor
           THEN /\ req' = [req EXCEPT ![r].pc = "inline"]
                /\ task' = [task EXCEPT ![r].pc = "begin"]
                /\ UNCHANGED semaphore
           ELSE IF ~semaphore_acquire(semaphore).proceed
           THEN Respond(r, 429, None) /\ UNCHANGED <<semaphore, task>>
           ELSE /\ semaphore' = semaphore_acquire(semaphore).value
                /\ task' = [task EXCEPT ![r].pc = "begin"]
                /\ req' = [req EXCEPT ![r].pc = "waiting"]
    /\ UNCHANGED <<mazeapi, maze, executor, colorama, faults, maze_solutions, dfs>>

TaskDone(r) == task[r].pc \in {"returned", "raised"}

\* res.result(timeout=8) returns or re-raises
HResult(r) ==
    /\ req[r].pc = "waiting"
    /\ TaskDone(r)
    /\ IF task[r].pc = "raised" THEN Respond(r, 500, None)
       ELSE Respond(r, 200, task[r].ret)
    /\ UNCHANGED <<mazeapi, maze, executor, colorama, semaphore, faults, maze_solutions, task, dfs>>

\* the timeout that also hands back the permit of the task it gave up on
HTimeoutReleasing(r) ==
    /\ req[r].pc = "waiting"
    /\ ~TaskDone(r)
    /\ Respond(r, 500, None)
    /\ semaphore' = semaphore + 1
    /\ UNCHANGED <<mazeapi, maze, executor, colorama, faults, maze_solutions, task, dfs>>

HTimeout(r) ==
    /\ req[r].pc = "waiting"
    /\ ~TaskDone(r)
    /\ Respond(r, 500, None)
    /\ UNCHANGED <<mazeapi, maze, executor, colorama, semaphore, faults, maze_solutions, task, dfs>>

\* await solver(...) returns into trigger_solver and the handler
HInlineDone(r) ==
    /\ req[r].pc = "inline"
    /\ TaskDone(r)
    /\ ~LoopBlocked
    /\ IF task[r].pc = "raised" THEN Respond(r, 500, None)
       ELSE IF task[r].ret # None THEN Respond(r, 200, task[r].ret)
       ELSE req' = [req EXCEPT ![r].pc = "reread"]
    /\ UNCHANGED <<mazeapi, maze, executor, colorama, semaphore, faults, maze_solutions, task, dfs>>

\* re-read status from db
HReread(r) ==
    /\ req[r].pc = "reread"
    /\ ~LoopBlocked
    /\ LET solution == get_solution_for_maze
           e == raise_solution_error_if_needed(solution, req[r].steps = "max")
       IN  IF e # 0 THEN Respond(r, e, None) ELSE Respond(r, 200, None)
    /\ UNCHANGED <<mazeapi, maze, executor, colorama, semaphore, faults, maze_solutions, task, dfs>>

\* a callback that hands back the permit while the task is still running
CallbackBeforeDone(r) ==
    /\ executor
    /\ task[r].pc # "none"
    /\ ~task[r].cb
    /\ task' = [task EXCEPT ![r].cb = TRUE]
    /\ semaphore' = semaphore + 1
    /\ UNCHANGED <<mazeapi, maze, executor, colorama, faults, maze_solutions, req, dfs>>

\* maze_solution_calculation_done: future.result() in the log line re-raises
\* the task's exception before semaphore.release() is reached
Callback(r) ==
    /\ executor
    /\ TaskDone(r)
    /\ ~task[r].cb
    /\ task' = [task EXCEPT ![r].cb = TRUE]
    /\ semaphore' = IF task[r].pc = "returned" THEN semaphore + 1 ELSE semaphore
    /\ UNCHANGED <<mazeapi, maze, executor, colorama, faults, maze_solutions, req, dfs>>

----------------------------------------------------------------------------
(* Worker: utils/mazesolverhelper.py, solver *)

MazeWidth == maze.grid_size[1]
MazeHeight == maze.grid_size[2]
MazeGrid == from_excel_array(MazeWidth, MazeHeight, maze.walls)
MazeStart == extracteinfo(maze.entrance)

\* a pool thread is free, or the coroutine runs on the event loop
CanRun(r) ==
    IF executor
    THEN \/ task[r].pc # "begin"
         \/ Cardinality({q \in Requests :
                           task[q].pc \notin {"none", "begin"} /\ ~task[q].cb})
               < solution_workers_max
    ELSE ~LoopBlocked

SetSolution(r, solution) == [req EXCEPT ![r].solution = solution]

\* lines 70-72: the record a NEW solution is saved as first
solver_begin(solution) == [solution EXCEPT !.status = "PROCESSING"]

\* the exit enumeration that records the status of a single exit without
\* the backtracked path
solver_min_status_only(solution) ==
    LET res == search_all_available_exits(MazeGrid, MazeStart)
        exits == res.exits
        caught == [solution EXCEPT !.status =
                      IF res.exc = "StartOutOfBounds" THEN "INVALID_ENTRY_OUTOFBOUNDS"
                      ELSE IF res.exc = "StartInWall" THEN "INVALID_ENTRY_INWALL"
                      ELSE solution.status]
    IN  IF exits # <<>> /\ Len(exits) = 1
        THEN [caught EXCEPT
                !.status = "SOLVED_MIN",
                !.detected_exit = glt(NodeLocation(exits[1]))]
        ELSE IF exits # <<>> /\ Len(exits) > 1
        THEN [caught EXCEPT !.status = "INVALID_MULTIEXIT"]
        ELSE caught

\* lines 81-106: exit enumeration and the status it leads to
solver_min(solution) ==
    LET res == search_all_available_exits(MazeGrid, MazeStart)
        exits == res.exits
        caught == [solution EXCEPT !.status =
                      IF res.exc = "StartOutOfBounds" THEN "INVALID_ENTRY_OUTOFBOUNDS"
                      ELSE IF res.exc = "StartInWall" THEN "INVALID_ENTRY_INWALL"
                      ELSE solution.status]
    IN  IF exits # <<>> /\ Len(exits) = 1
        THEN [caught EXCEPT
                !.status = "SOLVED_MIN",
                !.detected_exit = glt(NodeLocation(exits[1])),
                !.solution_min =
                    get_steps_as_excel_list(OrderedSet(backtrack_node_to_start(exits[1])))]
        ELSE IF exits # <<>> /\ Len(exits) = 0
        THEN [caught EXCEPT !.status = "INVALID_NOEXIT"]
        ELSE IF exits # <<>> /\ Len(exits) > 1
        THEN [caught EXCEPT !.status = "INVALID_MULTIEXIT"]
        ELSE caught

\* line 118: the branch that starts the longest-path search
WantsMax(r) ==
    /\ req[r].solution.detected_exit # None
    /\ req[r].steps = "max"
    /\ req[r].solution.status = "SOLVED_MIN"

\* an end of the max solve that stores a record holding only the new fields
solver_max_end_fresh(solution, exit_grid_node) ==
    IF exit_grid_node # None
    THEN [NewSolution(solution.id) EXCEPT
            !.status = "SOLVED_MAX",
            !.solution_max =
                get_steps_as_excel_list(OrderedSet(backtrack_node_to_start(exit_grid_node)))]
    ELSE [NewSolution(solution.id) EXCEPT !.status = "FAILED_MAX"]

\* lines 131-144: the record after the search returned exit_grid_node
solver_max_end(solution, exit_grid_node) ==
    IF exit_grid_node # None
    THEN [solution EXCEPT
            !.status = "SOLVED_MAX",
            !.solution_max =
                get_steps_as_excel_list(OrderedSet(backtrack_node_to_start(exit_grid_node)))]
    ELSE [solution EXCEPT !.status = "FAILED_MAX"]

Return(r, ret) == task' = [task EXCEPT ![r].pc = "returned", ![r].ret = ret]

SolverBegin(r) ==
    /\ task[r].pc = "begin"
    /\ CanRun(r)
    /\ IF req[r].solution.status = "NEW"
       THEN /\ req' = SetSolution(r, solver_begin(req[r].solution))
            /\ maze_solutions' = save(solver_begin(req[r].solution))
            /\ task' = [task EXCEPT ![r].pc = "min"]
       ELSE /\ task' = [task EXCEPT ![r].pc = "post"]
            /\ UNCHANGED <<req, maze_solutions>>
    /\ UNCHANGED <<mazeapi, maze, executor, colorama, semaphore, faults, dfs>>

SolverMin(r) ==
    /\ task[r].pc = "min"
    /\ CanRun(r)
    /\ IF MazeWidth <= 0 \/ MazeHeight <= 1
       THEN LET solution == [req[r].solution EXCEPT !.status = "INVALID_GEOMETRY"]
            IN  /\ req' = SetSolution(r, solution)
                /\ maze_solutions' = save(solution)
                /\ Return(r, None)
       ELSE /\ req' = SetSolution(r, solver_min(req[r].solution))
            /\ maze_solutions' = save(solver_min(req[r].solution))
            /\ task' = [task EXCEPT ![r].pc = "post"]
    /\ UNCHANGED <<mazeapi, maze, executor, colorama, semaphore, faults, dfs>>

SolverPost(r) ==
    /\ task[r].pc = "post"
    /\ CanRun(r)
    /\ LET solution == req[r].solution
           steps == req[r].steps
       IN  IF steps = "min" /\ solution.status \in {"SOLVED_MIN", "SOLVED_MAX", "FAILED_MAX"}
           THEN Return(r, solution.solution_min) /\ UNCHANGED <<req, maze_solutions, dfs>>
           ELSE IF steps = "max" /\ solution.status = "SOLVED_MAX"
           THEN Return(r, solution.solution_max) /\ UNCHANGED <<req, maze_solutions, dfs>>
           ELSE IF WantsMax(r)
           THEN LET entered == dfs_enter(MazeGrid, MazeStart,
                                         extracteinfo(solution.detected_exit))
                IN  /\ req' = SetSolution(r, solver_begin(solution))
                    /\ maze_solutions' = save(solver_begin(solution))
                    /\ dfs' = [dfs EXCEPT ![r] = [entered.st EXCEPT !.exc = entered.exc]]
                    /\ task' = [task EXCEPT ![r].pc =
                                  IF entered.exc = "none" THEN "dfs" ELSE "maxend"]
           ELSE Return(r, None) /\ UNCHANGED <<req, maze_solutions, dfs>>
    /\ UNCHANGED <<mazeapi, maze, executor, colorama, semaphore, faults>>

\* one iteration of the while loop of search_longest_path
DfsStep(r) ==
    /\ task[r].pc = "dfs"
    /\ CanRun(r)
    /\ \E it \in dfs_iteration(MazeGrid, extracteinfo(req[r].solution.detected_exit),
                               colorama, dfs[r]) :
          IF it.exc # "none"
          THEN /\ dfs' = [dfs EXCEPT ![r] = [DfsIdle EXCEPT !.exc = it.exc]]
               /\ task' = [task EXCEPT ![r].pc = "maxend"]
          ELSE /\ dfs' = [dfs EXCEPT ![r] = it.st]
               /\ task' = [task EXCEPT ![r].pc =
                             IF it.brk \/ it.st.frontier = <<>> THEN "maxend" ELSE "dfs"]
    /\ UNCHANGED <<mazeapi, maze, executor, colorama, semaphore, faults, maze_solutions, req>>

SolverMaxEnd(r) ==
    /\ task[r].pc = "maxend"
    /\ CanRun(r)
    /\ LET solution == solver_max_end(req[r].solution, dfs[r].best)
       IN  /\ req' = SetSolution(r, solution)
           /\ maze_solutions' = save(solution)
           /\ Return(r, IF dfs[r].best # None THEN solution.solution_max ELSE None)
    /\ dfs' = [dfs EXCEPT ![r] = DfsIdle]
    /\ UNCHANGED <<mazeapi, maze, executor, colorama, semaphore, faults>>

\* a solution.save() of the solver fails: nothing is stored and the
\* exception leaves the coroutine
SolverSaveFails(r) ==
    /\ faults > 0
    /\ CanRun(r)
    /\ \/ task[r].pc = "begin" /\ req[r].solution.status = "NEW"
       \/ task[r].pc = "min"
       \/ task[r].pc = "post" /\ WantsMax(r)
       \/ task[r].pc = "maxend"
    /\ faults' = faults - 1
    /\ task' = [task EXCEPT ![r].pc = "raised"]
    /\ dfs' = [dfs EXCEPT ![r] = DfsIdle]
    /\ UNCHANGED <<mazeapi, maze, executor, colorama, semaphore, maze_solutions, req>>

----------------------------------------------------------------------------
(* Strings: a str is the sequence of its code points *)

ord_0 == 48
ord_A == 65
ord_x == 120
ord_minus == 45

RECURSIVE str(_)
str(n) ==
    \* Python's str(int): decimal digits, a minus sign for a negative number
    IF n < 0 THEN <<ord_minus>> \o str(0 - n)
    ELSE IF n < 10 THEN <<ord_0 + n>>
    ELSE str(n \div 10) \o <<ord_0 + (n % 10)>>

RECURSIVE int_reduce(_, _)
int_reduce(r, digits) ==
    IF digits = <<>> THEN r
    ELSE int_reduce(r * 10 + (Head(digits) - ord_0), Tail(digits))

\* Python's int(str) on a string of decimal digits
int(digits) == int_reduce(0, digits)

IsDigit(ch) == ord_0 <= ch /\ ch <= ord_0 + 9

IsUpper(ch) == ord_A <= ch /\ ch <= ord_A + 25

\* [1-9]\d* over the whole of s
IsPositiveDecimal(s) ==
    /\ s # <<>>
    /\ IsDigit(s[1]) /\ s[1] # ord_0
    /\ \A i \in DOMAIN s : IsDigit(s[i])

\* to_excel as the string it returns: string.ascii_uppercase[r - 1] for each
\* appended remainder
to_excel_str(num) ==
    LET chars == to_excel(num)
    IN  [i \in DOMAIN chars |-> ord_A + chars[i]]

\* from_excel on a string: string.ascii_uppercase.index of each character
from_excel_str(chars) ==
    from_excel([i \in DOMAIN chars |-> chars[i] - ord_A])

\* glt: f"{to_excel(gltp.col)}{gltp.row + 1}"
glt_str(gltp) == to_excel_str(gltp[1]) \o str(gltp[2] + 1)

\* _excel_pattern ^([A-Z]{1,})([1-9]\d*)$ : the two groups, or None
excel_pattern_match(excelstr) ==
    LET uppers == {k \in 0..Len(excelstr) :
                      \A i \in 1..k : IsUpper(excelstr[i])}
        k == CHOOSE m \in uppers : \A o \in uppers : o <= m
        intgroup == SubSeq(excelstr, k + 1, Len(excelstr))
    IN  IF k >= 1 /\ IsPositiveDecimal(intgroup)
        THEN <<SubSeq(excelstr, 1, k), intgroup>>
        ELSE None

\* extracteinfo on a string; "ValueError" when the pattern does not match
extracteinfo_str(excelstr) ==
    LET match == excel_pattern_match(excelstr)
    IN  IF match = None THEN "ValueError"
        ELSE <<from_excel_str(match[1]) - 1, int(match[2]) - 1>>

\* _gridsize_pattern ^([1-9]\d*)x([1-9]\d*)$ : the two groups, or None
gridsize_pattern_match(value) ==
    LET xs == {i \in DOMAIN value : value[i] = ord_x}
    IN  IF xs = {} THEN None
        ELSE LET i == CHOOSE j \in xs : \A o \in xs : j <= o
                 g1 == SubSeq(value, 1, i - 1)
                 g2 == SubSeq(value, i + 1, Len(value))
             IN  IF IsPositiveDecimal(g1) /\ IsPositiveDecimal(g2)
                 THEN <<g1, g2>> ELSE None

\* MazeInput.get_grid_size_as_int_tuple
get_grid_size_as_int_tuple(grid_size) ==
    LET match == gridsize_pattern_match(grid_size)
    IN  IF match = None THEN <<-1, -1>>
        ELSE <<int(match[1]), int(match[2])>>

\* f"{i}x{k}"
grid_size_str(i, k) == str(i) \o <<ord_x>> \o str(k)

RECURSIVE str_lt(_, _)
str_lt(a, b) ==
    \* Python's a < b on str: lexicographic by code point
    IF b = <<>> THEN FALSE
    ELSE IF a = <<>> THEN TRUE
    ELSE IF Head(a) # Head(b) THEN Head(a) < Head(b)
    ELSE str_lt(Tail(a), Tail(b))

RECURSIVE sorted(_)
sorted(list) ==
    \* sorted(walls): ascending, stable
    IF list = <<>> THEN <<>>
    ELSE LET rest == sorted(Tail(list))
             before == SelectSeq(rest, LAMBDA y : str_lt(y, Head(list)))
             after == SelectSeq(rest, LAMBDA y : ~str_lt(y, Head(list)))
         IN  before \o <<Head(list)>> \o after

RECURSIVE sha256_updates(_)
sha256_updates(chunks) ==
    \* the byte stream the successive m.update calls feed to the digest
    IF chunks = <<>> THEN <<>> ELSE Head(chunks) \o sha256_updates(Tail(chunks))

\* the digest without the sort of the wall list
static_get_maze_hash_unsorted(grid_size, entrance, walls) ==
    sha256_updates(<<entrance, grid_size>> \o walls)

\* static_get_maze_hash: the digest is modelled by the byte stream it digests
static_get_maze_hash(grid_size, entrance, walls) ==
    sha256_updates(<<entrance, grid_size>> \o sorted(walls))

----------------------------------------------------------------------------
(* Functions applied to one input: codec, grid-size validation, fingerprint *)

NoCall == [fn |-> "none", done |-> TRUE, input |-> None, output |-> None]

\* columns up to AAA, rows up to two digits
CodecInputs == (0..MaxCol) \X (0..MaxRow)

\* the numbers i, k of a grid-size string f"{i}x{k}"
GridSizeInputs == ((0 - MaxDim)..MaxDim) \X ((0 - MaxDim)..MaxDim)

\* wall labels whose string order differs from their numeric order
HashLabels == {glt_str(<<0, 0>>), glt_str(<<0, 1>>), glt_str(<<0, 9>>),
               glt_str(<<1, 0>>), glt_str(<<26, 0>>)}

RECURSIVE UniqueLists(_, _)
UniqueLists(S, n) ==
    \* the lists of at most n distinct items of S (walls has unique_items)
    IF n = 0 THEN {<<>>}
    ELSE {<<>>} \cup UNION {{<<x>> \o l : l \in UniqueLists(S \ {x}, n - 1)} : x \in S}

HashInputs ==
    {grid_size_str(2, 10)} \X {glt_str(<<0, 0>>), glt_str(<<1, 0>>)}
        \X UniqueLists(HashLabels, MaxWalls)

\* entrances and grid sizes whose digits meet where the entrance label ends
\* and the grid-size label begins: A1 and A11 on grids 11x20 and 1x20
BoundaryHashInputs ==
    {grid_size_str(11, 20), grid_size_str(1, 20)}
        \X {glt_str(<<0, 0>>), glt_str(<<0, 10>>)}
        \X {<<>>, <<glt_str(<<0, 1>>)>>}

CallInputs ==
    {[fn |-> "glt", done |-> FALSE, input |-> i, output |-> None] : i \in CodecInputs}
    \cup {[fn |-> "to_excel", done |-> FALSE, input |-> i, output |-> None] :
            i \in 0..MaxCol}
    \cup {[fn |-> "grid_size", done |-> FALSE, input |-> i, output |-> None] :
            i \in GridSizeInputs}
    \cup {[fn |-> "get_maze_hash", done |-> FALSE, input |-> i, output |-> None] :
            i \in HashInputs \cup BoundaryHashInputs}

\* extracteinfo(glt(location))
ApplyGlt ==
    /\ call.fn = "glt" /\ ~call.done
    /\ call' = [call EXCEPT !.done = TRUE,
                            !.output = <<glt_str(call.input),
                                         extracteinfo_str(glt_str(call.input))>>]
    /\ UNCHANGED <<maze, executor, colorama, semaphore, faults, maze_solutions,
                   req, task, dfs, settings, mazes_table, users_table,
                   mazenums_assigned, api>>

ApplyToExcel ==
    /\ call.fn = "to_excel" /\ ~call.done
    /\ call' = [call EXCEPT !.done = TRUE, !.output = to_excel_str(call.input)]
    /\ UNCHANGED <<maze, executor, colorama, semaphore, faults, maze_solutions,
                   req, task, dfs, settings, mazes_table, users_table,
                   mazenums_assigned, api>>

\* GridSize validation of f"{i}x{k}" and get_grid_size_as_int_tuple
ApplyGridSize ==
    /\ call.fn = "grid_size" /\ ~call.done
    /\ LET value == grid_size_str(call.input[1], call.input[2])
       IN  call' = [call EXCEPT !.done = TRUE,
                                !.output = <<gridsize_pattern_match(value) # None,
                                             get_grid_size_as_int_tuple(value)>>]
    /\ UNCHANGED <<maze, executor, colorama, semaphore, faults, maze_solutions,
                   req, task, dfs, settings, mazes_table, users_table,
                   mazenums_assigned, api>>

\* MazeInput.get_maze_hash
ApplyGetMazeHash ==
    /\ call.fn = "get_maze_hash" /\ ~call.done
    /\ call' = [call EXCEPT !.done = TRUE,
                            !.output = static_get_maze_hash(call.input[1],
                                           call.input[2], call.input[3])]
    /\ UNCHANGED <<maze, executor, colorama, semaphore, faults, maze_solutions,
                   req, task, dfs, settings, mazes_table, users_table,
                   mazenums_assigned, api>>

----------------------------------------------------------------------------
(* Maze handlers: routers/mazes.py, routers/users.py, class Maze *)

Callers == 1..MaxCallers

Users == 1..MaxUsers

NoMaze ==
    [id |-> 0, owner_id |-> 0, hash |-> <<>>, mazenum |-> 0,
     grid_size |-> <<>>, entrance |-> <<>>, walls |-> <<>>]

ApiIdle ==
    [pc |-> "idle", user |-> 0, maze |-> NoMaze, todo |-> <<>>,
     code |-> 0, body |-> NoMaze]

\* The maze_data of the create requests: one fingerprint sent with its walls
\* in either order, and a second fingerprint
MazeData ==
    {[grid_size |-> grid_size_str(2, 2), entrance |-> glt_str(<<0, 0>>), walls |-> w] :
        w \in {<<>>, <<glt_str(<<1, 0>>), glt_str(<<0, 1>>)>>,
               <<glt_str(<<0, 1>>), glt_str(<<1, 0>>)>>}}

get_maze_hash(maze_data) ==
    static_get_maze_hash(maze_data.grid_size, maze_data.entrance, maze_data.walls)

\* the first record of a query's result, NoMaze for an empty result
FirstMaze(keys) ==
    IF keys = {} THEN NoMaze
    ELSE mazes_table[CHOOSE k \in keys : \A j \in keys : k <= j]

get_maze_from_db_by_userid_and_hash(userid, hash) ==
    FirstMaze({k \in DOMAIN mazes_table :
                  mazes_table[k].owner_id = userid /\ mazes_table[k].hash = hash})

get_maze_from_db_by_userid_and_mazenum(userid, mazenum) ==
    FirstMaze({k \in DOMAIN mazes_table :
                  mazes_table[k].owner_id = userid /\ mazes_table[k].mazenum = mazenum})

get_maze_from_db_by_id(mazeid) ==
    FirstMaze({k \in DOMAIN mazes_table : k = mazeid})

get_all_mazes_from_db_by_userid(userid) ==
    {k \in DOMAIN mazes_table : mazes_table[k].owner_id = userid}

RECURSIVE KeysInOrder(_)
KeysInOrder(keys) ==
    IF keys = {} THEN <<>>
    ELSE LET k == CHOOSE m \in keys : \A j \in keys : m <= j
         IN  <<k>> \o KeysInOrder(keys \ {k})

\* Maze(owner_id, grid_size, entrance, walls, hash): mazenum defaults to 1
NewMaze(userid, maze_data) ==
    [id |-> 0, owner_id |-> userid, hash |-> get_maze_hash(maze_data), mazenum |-> 1,
     grid_size |-> maze_data.grid_size, entrance |-> maze_data.entrance,
     walls |-> maze_data.walls]

\* a delete that also drops the solutions stored for the fingerprint
delete_maze_and_solutions(mazeid) ==
    /\ mazes_table' = [k \in DOMAIN mazes_table \ {mazeid} |-> mazes_table[k]]
    /\ maze_solutions' = <<>>

\* delete_maze: the key leaves the mazes table; no other table is written
delete_maze(mazeid) ==
    /\ mazes_table' = [k \in DOMAIN mazes_table \ {mazeid} |-> mazes_table[k]]
    /\ UNCHANGED maze_solutions

ApiRespond(c, code, body) ==
    api' = [api EXCEPT ![c] = [ApiIdle EXCEPT !.code = code, !.body = body]]

Creating == {c \in Callers : api[c].pc \in {"create_new", "save_maze"}}

\* create_maze up to the answer of get_maze_by_userid_and_hash
CreateMazeWithin(c, user, maze_data, bound) ==
    /\ api[c].pc = "idle"
    /\ user \in users_table
    /\ Len(mazenums_assigned) + Cardinality(Creating) < bound
    /\ LET hash == get_maze_hash(maze_data)
           maze_already_there == get_maze_from_db_by_userid_and_hash(user, hash)
       IN  IF maze_already_there # NoMaze
           THEN ApiRespond(c, 201, maze_already_there)
           ELSE api' = [api EXCEPT ![c] = [ApiIdle EXCEPT !.pc = "create_new",
                                              !.user = user,
                                              !.maze = NewMaze(user, maze_data)]]
    /\ UNCHANGED <<maze, executor, colorama, semaphore, faults, maze_solutions,
                   req, task, dfs, settings, mazes_table, users_table,
                   mazenums_assigned, call>>

CreateMaze(c, user, maze_data) == CreateMazeWithin(c, user, maze_data, MaxCreated)

\* Maze.create_new up to the answer of get_all_mazes_from_db_by_userid
CreateNewCount(c) ==
    /\ api[c].pc = "create_new"
    /\ LET all_user_mazes_dict == get_all_mazes_from_db_by_userid(api[c].maze.owner_id)
       IN  api' = [api EXCEPT ![c].pc = "save_maze",
                              ![c].maze.mazenum = Cardinality(all_user_mazes_dict) + 1]
    /\ UNCHANGED <<maze, executor, colorama, semaphore, faults, maze_solutions,
                   req, task, dfs, settings, mazes_table, users_table,
                   mazenums_assigned, call>>

\* Maze.create_new: save_maze(new_maze=True), and the 201 answer
CreateNewSave(c) ==
    /\ api[c].pc = "save_maze"
    /\ LET id == Len(mazenums_assigned) + 1
           new_maze == [api[c].maze EXCEPT !.id = id]
       IN  /\ mazes_table' = (id :> new_maze) @@ mazes_table
           /\ mazenums_assigned' =
                Append(mazenums_assigned, <<new_maze.owner_id, new_maze.mazenum>>)
           /\ ApiRespond(c, 201, new_maze)
    /\ UNCHANGED <<maze, executor, colorama, semaphore, faults, maze_solutions,
                   req, task, dfs, settings, users_table, call>>

\* delete_maze_by_mazenum up to the answer of get_maze_by_userid_and_mazenum
DeleteMazeByMazenum(c, user, mazenum) ==
    /\ api[c].pc = "idle"
    /\ user \in users_table
    /\ LET found == get_maze_from_db_by_userid_and_mazenum(user, mazenum)
       IN  IF found = NoMaze
           THEN ApiRespond(c, 404, NoMaze)
           ELSE api' = [api EXCEPT ![c] = [ApiIdle EXCEPT !.pc = "delete",
                                              !.user = user, !.maze = found]]
    /\ UNCHANGED <<maze, executor, colorama, semaphore, faults, maze_solutions,
                   req, task, dfs, settings, mazes_table, users_table,
                   mazenums_assigned, call>>

\* delete_maze_by_mazeid up to the answer of get_maze_by_mazeid
DeleteMazeByMazeid(c, user, mazeid) ==
    /\ api[c].pc = "idle"
    /\ user \in users_table
    /\ LET found == get_maze_from_db_by_id(mazeid)
       IN  IF found = NoMaze
           THEN ApiRespond(c, 404, NoMaze)
           ELSE IF found.owner_id # user
           THEN ApiRespond(c, 403, NoMaze)
           ELSE api' = [api EXCEPT ![c] = [ApiIdle EXCEPT !.pc = "delete",
                                              !.user = user, !.maze = found]]
    /\ UNCHANGED <<maze, executor, colorama, semaphore, faults, maze_solutions,
                   req, task, dfs, settings, mazes_table, users_table,
                   mazenums_assigned, call>>

\* Maze.delete, and the 204 answer
MazeDelete(c) ==
    /\ api[c].pc = "delete"
    /\ delete_maze(api[c].maze.id)
    /\ ApiRespond(c, 204, NoMaze)
    /\ UNCHANGED <<maze, executor, colorama, semaphore, faults,
                   req, task, dfs, settings, users_table, mazenums_assigned, call>>

\* delete_user up to the answer of get_all_mazes_from_db_by_userid
DeleteUser(c, user) ==
    /\ api[c].pc = "idle"
    /\ user \in users_table
    /\ api' = [api EXCEPT ![c] =
                 [ApiIdle EXCEPT !.pc = "delete_all", !.user = user,
                     !.todo = KeysInOrder(get_all_mazes_from_db_by_userid(user))]]
    /\ UNCHANGED <<maze, executor, colorama, semaphore, faults, maze_solutions,
                   req, task, dfs, settings, mazes_table, users_table,
                   mazenums_assigned, call>>

\* delete_all_mazes_belonging_to_user: one delmaze.delete() of the loop
DeleteAllStep(c) ==
    /\ api[c].pc = "delete_all"
    /\ api[c].todo # <<>>
    /\ delete_maze(Head(api[c].todo))
    /\ api' = [api EXCEPT ![c].todo = Tail(api[c].todo)]
    /\ UNCHANGED <<maze, executor, colorama, semaphore, faults,
                   req, task, dfs, settings, users_table, mazenums_assigned, call>>

\* delete_user after the loop: me.delete_me(), and the 204 answer
DeleteMe(c) ==
    /\ api[c].pc = "delete_all"
    /\ api[c].todo = <<>>
    /\ users_table' = users_table \ {api[c].user}
    /\ ApiRespond(c, 204, NoMaze)
    /\ UNCHANGED <<maze, executor, colorama, semaphore, faults, maze_solutions,
                   req, task, dfs, settings, mazes_table, mazenums_assigned, call>>

----------------------------------------------------------------------------
(* Searches applied to one grid: bfs.py, BFSSolver.search_all_available_exits *)
(* and astar.py, AstarSolver.create_reachable_map_min, one loop iteration a   *)
(* step                                                                       *)

\* SquareGrid(dimension, walls) and the GridLocation handed to the search:
\* every grid up to W x H, every wall set on its cells, every location up to
\* one column or row beyond the grid
GridInputs(W, H) ==
    UNION {
      {[grid |-> [width |-> w, height |-> h, walls |-> ws], loc |-> l] :
          ws \in SUBSET Cells(w, h), l \in (0..w) \X (0..h)} :
      w \in 1..W, h \in 1..H}

\* the locals of search_all_available_exits before its first statement;
\* pushed lists the locations frontier.push was called with, in order
BfsIdle ==
    [pc |-> "enter", exc |-> "none", frontier |-> <<>>, explored |-> {},
     ret |-> <<>>, pushed |-> <<>>]

\* lines 21-33: the start checks and the push of the start node
bfs_enter(grid, start) ==
    IF start_check(grid, start) # "ok"
    THEN [BfsIdle EXCEPT !.pc = "raised", !.exc = start_check(grid, start)]
    ELSE [BfsIdle EXCEPT !.pc = "loop", !.frontier = << <<start>> >>,
                         !.pushed = <<start>>]

\* lines 36-52: one iteration of the while loop on a non-empty frontier
bfs_iteration(grid, st) ==
    LET current_node == Head(st.frontier)
        current_location == NodeLocation(current_node)
        ret == IF current_location[2] = grid.height - 1
               THEN Append(st.ret, current_node) ELSE st.ret
        fresh == SelectSeq(allowed_neighbors(grid, current_location),
                           LAMBDA n : n \notin st.explored)
        pushed == [i \in 1..Len(fresh) |-> Append(current_node, fresh[i])]
        frontier == Tail(st.frontier) \o pushed
    IN  [st EXCEPT !.pc = IF frontier = <<>> THEN "returned" ELSE "loop",
                   !.frontier = frontier,
                   !.explored = st.explored \cup Range(fresh),
                   !.ret = ret,
                   !.pushed = st.pushed \o fresh]

FrameGrid ==
    UNCHANGED <<maze, executor, colorama, semaphore, faults, maze_solutions,
                req, task, dfs, settings, mazes_table, users_table,
                mazenums_assigned, api>>

BfsEnter ==
    /\ call.fn = "search_all_available_exits" /\ call.output.pc = "enter"
    /\ LET st == bfs_enter(call.input.grid, call.input.loc)
       IN  call' = [call EXCEPT !.done = st.pc = "raised", !.output = st]
    /\ FrameGrid

BfsStep ==
    /\ call.fn = "search_all_available_exits" /\ call.output.pc = "loop"
    /\ LET st == bfs_iteration(call.input.grid, call.output)
       IN  call' = [call EXCEPT !.done = st.pc = "returned", !.output = st]
    /\ FrameGrid

\* the locals of create_reachable_map_min and of the search_shortest_path it
\* calls for the cell <<col, row>>
ReachIdle ==
    [pc |-> "enter", exc |-> "none", ret |-> {}, col |-> 0, row |-> 0,
     frontier |-> {}, explored |-> <<>>]

\* astar.py lines 124-130: the goal checks
reach_enter(grid, goal) ==
    IF goal_check(grid, goal) # "ok"
    THEN [ReachIdle EXCEPT !.pc = "raised", !.exc = goal_check(grid, goal)]
    ELSE [ReachIdle EXCEPT !.pc = "cell"]

\* lines 132-133: the two range loops move on to the next cell, or end
reach_next(grid, st) ==
    LET cleared == [st EXCEPT !.frontier = {}, !.explored = <<>>]
    IN  IF st.col + 1 < grid.width
        THEN [cleared EXCEPT !.pc = "cell", !.col = st.col + 1]
        ELSE IF st.row + 1 < grid.height
        THEN [cleared EXCEPT !.pc = "cell", !.col = 0, !.row = st.row + 1]
        ELSE [cleared EXCEPT !.pc = "returned"]

\* lines 134-139 and 147-157: the cell is skipped, or search_shortest_path
\* puts its start node on the PriorityQueue
reach_cell(grid, goal, st) ==
    LET start == <<st.col, st.row>>
    IN  IF start \in grid.walls \/ start[1] < 0 \/ start[2] >= grid.width
        THEN reach_next(grid, st)
        ELSE IF start_check(grid, start) # "ok"
        THEN [st EXCEPT !.pc = "raised", !.exc = start_check(grid, start)]
        ELSE [st EXCEPT !.pc = "astar", !.frontier = {<<start>>}]

\* (priority, item) tuples of the queue: the priority is the node's cost, and
\* GridNode.__lt__ orders equal priorities by cost + heuristic
astar_entry_lt(goal, a, b) ==
    LET prio(n) == Len(n) - 1
        f(n) == (Len(n) - 1) + manhattan_heuristic(NodeLocation(n), goal)
    IN  \/ prio(a) < prio(b)
        \/ prio(a) = prio(b) /\ f(a) < f(b)

\* the nodes frontier.pop() can return: the heap order among entries that
\* compare equal is left open
astar_pop(goal, frontier) ==
    {n \in frontier : \A m \in frontier : ~astar_entry_lt(goal, m, n)}

\* lines 162-184: one iteration of the while loop of search_shortest_path that
\* pops current_node, and lines 140-141 when the search returns
astar_iteration(grid, goal, st, current_node) ==
    LET current_location == NodeLocation(current_node)
        neigh_cost == (Len(current_node) - 1) + 1
        put == {n \in Range(allowed_neighbors(grid, current_location)) :
                   n \notin DOMAIN st.explored \/ st.explored[n] > neigh_cost}
        explored == [n \in DOMAIN st.explored \cup put |->
                        IF n \in put THEN neigh_cost ELSE st.explored[n]]
        frontier == (st.frontier \ {current_node})
                        \cup {Append(current_node, n) : n \in put}
    IN  IF current_location[2] = goal[2] /\ current_location[1] = goal[1]
        THEN reach_next(grid, [st EXCEPT !.ret = st.ret \cup {<<st.col, st.row>>}])
        ELSE IF frontier = {}
        THEN reach_next(grid, st)
        ELSE [st EXCEPT !.frontier = frontier, !.explored = explored]

ReachEnter ==
    /\ call.fn = "create_reachable_map_min" /\ call.output.pc = "enter"
    /\ LET st == reach_enter(call.input.grid, call.input.loc)
       IN  call' = [call EXCEPT !.done = st.pc = "raised", !.output = st]
    /\ FrameGrid

ReachCell ==
    /\ call.fn = "create_reachable_map_min" /\ call.output.pc = "cell"
    /\ LET st == reach_cell(call.input.grid, call.input.loc, call.output)
       IN  call' = [call EXCEPT !.done = st.pc \in {"raised", "returned"},
                                !.output = st]
    /\ FrameGrid

AstarStep ==
    /\ call.fn = "create_reachable_map_min" /\ call.output.pc = "astar"
    /\ \E current_node \in astar_pop(call.input.loc, call.output.frontier) :
          LET st == astar_iteration(call.input.grid, call.input.loc, call.output,
                                    current_node)
          IN  call' = [call EXCEPT !.done = st.pc = "returned", !.output = st]
    /\ FrameGrid

GridCalls(W, H) ==
    {[fn |-> "search_all_available_exits", done |-> FALSE, input |-> i,
      output |-> BfsIdle] : i \in GridInputs(W, H)}
    \cup {[fn |-> "create_reachable_map_min", done |-> FALSE, input |-> i,
           output |-> ReachIdle] : i \in GridInputs(W, H)}

----------------------------------------------------------------------------
(* Specifications *)

\* Settings: DETA_RUNTIME is "true" on the Deta runtime, "False" by default
deta_runtime_detected == settings.DETA_RUNTIME = "true"

DefaultSettings == [DETA_RUNTIME |-> "False"]

\* Nothing created, no maze handler running, no function applied
InitIdle ==
    /\ mazes_table = <<>>
    /\ users_table = Users
    /\ mazenums_assigned = <<>>
    /\ api = [c \in Callers |-> ApiIdle]
    /\ call = NoCall


\* Dispatcher: concurrent requests for one fingerprint, storage failures,
\* timeouts, pool or inline; mazes with entrance A1 on grids up to
\* RaceWidth x RaceHeight
RaceMazes ==
    {m \in MazeInputs(RaceWidth, RaceHeight) :
        /\ m.entrance = glt(<<0, 0>>)
        /\ \A w \in m.walls :
              extracteinfo(w) \in Cells(m.grid_size[1], m.grid_size[2])}

Init ==
    /\ InitWith(RaceMazes)
    /\ colorama = FALSE
    /\ settings = DefaultSettings
    /\ InitIdle

Next ==
    \E r \in Requests :
        \/ \E steps \in {"min", "max"} : HGetSolution(r, steps)
        \/ HCreate(r)
        \/ HCheck(r)
        \/ HResult(r)
        \/ HTimeout(r)
        \/ HInlineDone(r)
        \/ HReread(r)
        \/ Callback(r)
        \/ SolverBegin(r)
        \/ SolverMin(r)
        \/ SolverPost(r)
        \/ DfsStep(r)
        \/ SolverMaxEnd(r)
        \/ SolverSaveFails(r)

Spec == Init /\ [][Next]_vars

\* Solver: one request after the other through the pool, no failures, every
\* maze input up to MaxWidth x MaxHeight
InitSolver ==
    /\ InitWith(MazeInputs(MaxWidth, MaxHeight))
    /\ executor = TRUE
    /\ settings = DefaultSettings
    /\ InitIdle

NextSolver ==
    \/ \E steps \in {"min", "max"} : HGetSolution(1, steps)
    \/ HCreate(1)
    \/ HCheck(1)
    \/ HResult(1)
    \/ Callback(1)
    \/ SolverBegin(1)
    \/ SolverMin(1)
    \/ SolverPost(1)
    \/ DfsStep(1)
    \/ SolverMaxEnd(1)

SpecSolver == InitSolver /\ [][NextSolver]_vars

\* Search: the solver of SpecSolver on the mazes with entrance A1 and walls on
\* the grid, the worker thread running its loop until the loop ends
SearchMazes(W, H) ==
    UNION {{[grid_size |-> <<w, h>>, entrance |-> glt(<<0, 0>>),
             walls |-> {glt(x) : x \in ws}] : ws \in SUBSET Cells(w, h)} :
           w \in 1..W, h \in 1..H}

InitSearch ==
    /\ InitWith(SearchMazes(MaxWidth, MaxHeight))
    /\ executor = TRUE
    /\ colorama = FALSE
    /\ settings = DefaultSettings
    /\ InitIdle

SpecSearch == InitSearch /\ [][NextSolver]_vars /\ WF_vars(DfsStep(1))

\* Environment: the dispatcher for one request after the other, pool or
\* inline, under either value of DETA_RUNTIME
InitDeta ==
    /\ InitWith(RaceMazes)
    /\ colorama = FALSE
    /\ settings \in {[DETA_RUNTIME |-> v] : v \in {"true", "false", "False"}}
    /\ InitIdle

NextDeta ==
    \/ \E steps \in {"min", "max"} : HGetSolution(1, steps)
    \/ HCreate(1)
    \/ HCheck(1)
    \/ HResult(1)
    \/ HInlineDone(1)
    \/ HReread(1)
    \/ Callback(1)
    \/ SolverBegin(1)
    \/ SolverMin(1)
    \/ SolverPost(1)
    \/ DfsStep(1)
    \/ SolverMaxEnd(1)

SpecDeta == InitDeta /\ [][NextDeta]_vars

\* Mazes: the create and delete handlers of MaxCallers concurrent callers,
\* beside a solution store that is empty or holds a solved record
InitMazes ==
    /\ maze \in {m \in RaceMazes : m.grid_size = <<1, 2>> /\ m.walls = {}}
    /\ executor = TRUE
    /\ colorama = FALSE
    /\ semaphore = solution_tasks_max_in_queue
    /\ faults = MaxFaults
    /\ maze_solutions \in {<<>>, 1 :> solver_min(solver_begin(NewSolution(1)))}
    /\ req = [r \in Requests |->
                [pc |-> "idle", steps |-> "min", solution |-> NoSolution,
                 response |-> NoResponse]]
    /\ task = [r \in Requests |-> NoTask]
    /\ dfs = [r \in Requests |-> DfsIdle]
    /\ settings = DefaultSettings
    /\ InitIdle

NextMazes ==
    \E c \in Callers :
        \/ \E user \in Users, maze_data \in MazeData : CreateMaze(c, user, maze_data)
        \/ CreateNewCount(c)
        \/ CreateNewSave(c)
        \/ \E user \in Users, mazenum \in 1..MaxCreated :
              DeleteMazeByMazenum(c, user, mazenum)
        \/ \E user \in Users, mazeid \in 1..MaxCreated :
              DeleteMazeByMazeid(c, user, mazeid)
        \/ MazeDelete(c)
        \/ \E user \in Users : DeleteUser(c, user)
        \/ DeleteAllStep(c)
        \/ DeleteMe(c)

SpecMazes == InitMazes /\ [][NextMazes]_vars

\* MazesAlone: one caller that sends each create or delete after the answer
\* to the one before, up to MaxSequential mazes created
NextMazesAlone ==
    \/ \E user \in Users, maze_data \in MazeData :
          CreateMazeWithin(1, user, maze_data, MaxSequential)
    \/ CreateNewCount(1)
    \/ CreateNewSave(1)
    \/ \E user \in Users, mazenum \in 1..MaxSequential :
          DeleteMazeByMazenum(1, user, mazenum)
    \/ \E user \in Users, mazeid \in 1..MaxSequential :
          DeleteMazeByMazeid(1, user, mazeid)
    \/ MazeDelete(1)

SpecMazesAlone == InitMazes /\ [][NextMazesAlone]_vars

\* Functions: each input of CallInputs, and the function applied to it
InitFunctions ==
    /\ InitWith(RaceMazes)
    /\ maze.grid_size = <<1, 2>> /\ maze.walls = {}
    /\ executor = TRUE
    /\ colorama = FALSE
    /\ settings = DefaultSettings
    /\ mazes_table = <<>>
    /\ users_table = Users
    /\ mazenums_assigned = <<>>
    /\ api = [c \in Callers |-> ApiIdle]
    /\ call \in CallInputs

NextFunctions ==
    \/ ApplyGlt
    \/ ApplyToExcel
    \/ ApplyGridSize
    \/ ApplyGetMazeHash

SpecFunctions == InitFunctions /\ [][NextFunctions]_vars

\* Grid: each grid and location of GridInputs, and one of the two searches
\* applied to it
InitGrid ==
    /\ InitWith(RaceMazes)
    /\ maze.grid_size = <<1, 2>> /\ maze.walls = {}
    /\ executor = TRUE
    /\ colorama = FALSE
    /\ settings = DefaultSettings
    /\ mazes_table = <<>>
    /\ users_table = Users
    /\ mazenums_assigned = <<>>
    /\ api = [c \in Callers |-> ApiIdle]
    /\ call \in GridCalls(MaxWidth, MaxHeight)

NextGrid ==
    \/ BfsEnter
    \/ BfsStep
    \/ ReachEnter
    \/ ReachCell
    \/ AstarStep

SpecGrid == InitGrid /\ [][NextGrid]_vars

----------------------------------------------------------------------------
(* Properties *)

InGrid(loc) == loc \in Cells(MazeWidth, MazeHeight)

Passable(loc) == InGrid(loc) /\ loc \notin MazeGrid.walls

Adjacent(a, b) == Abs(a[1] - b[1]) + Abs(a[2] - b[2]) = 1

\* the cells that 4-connected steps through passable cells lead to from the
\* cells of S
RECURSIVE ReachableFrom(_)
ReachableFrom(S) ==
    LET N == S \cup {c \in Cells(MazeWidth, MazeHeight) :
                        Passable(c) /\ \E s \in S : Adjacent(c, s)}
    IN  IF N = S THEN S ELSE ReachableFrom(N)

BottomRow == {c \in Cells(MazeWidth, MazeHeight) : c[2] = MazeHeight - 1}

\* the number of 4-connected steps through passable cells from the cells of
\* S to goal, -1 when there is no such walk
RECURSIVE StepsFrom(_, _, _)
StepsFrom(S, goal, n) ==
    LET N == S \cup {c \in Cells(MazeWidth, MazeHeight) :
                        Passable(c) /\ \E s \in S : Adjacent(c, s)}
    IN  IF goal \in S THEN n
        ELSE IF N = S THEN -1
        ELSE StepsFrom(N, goal, n + 1)

InFlight(r) == task[r].pc \in {"begin", "min", "post", "dfs", "maxend"}

Records == {maze_solutions[k] : k \in DOMAIN maze_solutions}

\* the geometry check of the solver lets the maze through
GeometryValid == MazeWidth > 0 /\ MazeHeight > 1

\* C3: when the exit enumeration of a NEW record finds no bottom-row cell
\* reachable from the entrance, the run leaves the record INVALID_NOEXIT
C3_NoExitRecorded ==
    (/\ GeometryValid
     /\ Passable(MazeStart)
     /\ ReachableFrom({MazeStart}) \cap BottomRow = {}
     /\ TaskDone(1))
        => \A s \in Records : s.status = "INVALID_NOEXIT"

\* C6: a SOLVED_MAX record has a solution_max that starts at the entrance
\* and ends at detected_exit
C6_SolvedMaxEnds ==
    \A s \in Records :
        s.status = "SOLVED_MAX" =>
            /\ s.solution_max # None
            /\ s.solution_max[1] = maze.entrance
            /\ s.solution_max[Len(s.solution_max)] = s.detected_exit

\* C7: a max solve ends in FAILED_MAX only when the search left its loop
\* through the budget check
C7_FailedMaxOnlyOnBudget ==
    \A r \in Requests :
        (task[r].pc = "maxend" /\ dfs[r].best = None) => dfs[r].brk

\* C8: the exit enumeration raises StartOutOfBounds exactly when the entrance
\* is not inside the grid, and the record of exactly those mazes becomes
\* INVALID_ENTRY_OUTOFBOUNDS
C8_OutOfBoundsExact ==
    (GeometryValid /\ TaskDone(1)) =>
        /\ (search_all_available_exits(MazeGrid, MazeStart).exc = "StartOutOfBounds")
              <=> ~InGrid(MazeStart)
        /\ \A s \in Records :
              (s.status = "INVALID_ENTRY_OUTOFBOUNDS") <=> ~InGrid(MazeStart)

PathCellsValid(path) ==
    /\ \A i \in 1..Len(path) : Passable(extracteinfo(path[i]))
    /\ \A i \in 1..(Len(path) - 1) :
          Adjacent(extracteinfo(path[i]), extracteinfo(path[i + 1]))

\* C9: every coordinate of a returned path is inside the grid and not a
\* wall, and consecutive coordinates are 4-adjacent
C9_PathCellsValid ==
    \A s \in Records :
        /\ s.solution_min # None => PathCellsValid(s.solution_min)
        /\ s.solution_max # None => PathCellsValid(s.solution_max)

\* C10: the solution_min of a SOLVED_MIN record starts at the entrance, ends
\* at detected_exit and has as many steps as the shortest 4-connected walk
\* from the entrance to detected_exit
C10_SolutionMinShortest ==
    \A s \in Records :
        s.status = "SOLVED_MIN" =>
            /\ s.solution_min # None
            /\ s.solution_min[1] = maze.entrance
            /\ s.solution_min[Len(s.solution_min)] = s.detected_exit
            /\ Len(s.solution_min) - 1 =
                  StepsFrom({MazeStart}, extracteinfo(s.detected_exit), 0)

\* a SOLVED_MIN record whose shortest walk has to go around walls
C10_Witness ==
    \E s \in Records :
        /\ s.status = "SOLVED_MIN"
        /\ TaskDone(1)
        /\ Len(s.solution_min) - 1 >
              manhattan_heuristic(MazeStart, extracteinfo(s.detected_exit))

\* C1: of the requests that hold the same solution record at most one has a
\* solver run admitted and unfinished
C1_SingleSolverRun ==
    \A r1, r2 \in Requests :
        (r1 # r2 /\ req[r1].solution.id = req[r2].solution.id)
            => ~(InFlight(r1) /\ InFlight(r2))

\* no solver task is submitted or running, and every completion callback
\* has run
NoSolveInFlight ==
    \A r \in Requests :
        \/ task[r].pc = "none"
        \/ TaskDone(r) /\ (task[r].cb \/ ~executor)

\* C2: once no solve is in flight every admission permit is back
C2_PermitsRestored ==
    NoSolveInFlight => semaphore = solution_tasks_max_in_queue

StatusEdges ==
    ({"NEW"} \X {"PROCESSING"})
    \cup ({"PROCESSING"} \X
            ({"SOLVED_MIN", "SOLVED_MAX", "FAILED_MAX", "SYSTEM_FAIL"}
             \cup InvalidStatuses))
    \cup ({"SOLVED_MIN"} \X {"PROCESSING"})

\* C4: every change of a record's persisted status is an edge of the state
\* machine
C4_StatusEdges ==
    [][\A k \in DOMAIN maze_solutions :
          maze_solutions'[k].status # maze_solutions[k].status
              => <<maze_solutions[k].status, maze_solutions'[k].status>>
                    \in StatusEdges]_vars

\* C5: a persisted status of INVALID_* or SYSTEM_FAIL never changes
C5_TerminalStatusKept ==
    [][\A k \in DOMAIN maze_solutions :
          maze_solutions[k].status \in InvalidStatuses \cup {"SYSTEM_FAIL"}
              => maze_solutions'[k].status = maze_solutions[k].status]_vars

SetMax(S) == CHOOSE x \in S : \A y \in S : y <= x

\* the number of cells of a longest walk from cur to goal that steps through
\* passable cells and enters no cell of visited, 0 when there is none
RECURSIVE LongestSimplePath(_, _, _)
LongestSimplePath(cur, goal, visited) ==
    IF cur = goal THEN 1
    ELSE LET next == {c \in Cells(MazeWidth, MazeHeight) :
                         Passable(c) /\ Adjacent(c, cur) /\ c \notin visited}
             found == {LongestSimplePath(c, goal, visited \cup {c}) : c \in next} \ {0}
         IN  IF found = {} THEN 0 ELSE 1 + SetMax(found)

\* C11: the solution_max of a SOLVED_MAX record has as many cells as a
\* longest simple path from the entrance to detected_exit, whichever
\* shuffles the search drew
C11_SolutionMaxLongest ==
    \A s \in Records :
        s.status = "SOLVED_MAX" =>
            Len(s.solution_max) =
                LongestSimplePath(MazeStart, extracteinfo(s.detected_exit), {MazeStart})

NoRepeats(path) ==
    \A i, j \in 1..Len(path) : path[i] = path[j] => i = j

\* C12: a solution_max that is present has no repeated coordinate and is
\* at least as long as the solution_min of its record
C12_SolutionMaxShape ==
    \A s \in Records :
        s.solution_max # None =>
            /\ NoRepeats(s.solution_max)
            /\ s.solution_min # None
            /\ Len(s.solution_max) >= Len(s.solution_min)

\* a stored solution_max that is longer than the solution_min and comes from
\* a node chain that stepped back onto the entrance
C12_Witness ==
    \E s \in Records :
        /\ s.status = "SOLVED_MAX"
        /\ Len(s.solution_max) > Len(s.solution_min)
        /\ s.solution_max[1] # maze.entrance

\* C13: a run on a NEW record whose exit enumeration returns exactly one exit
\* stores SOLVED_MIN with detected_exit and solution_min, and every
\* SOLVED_MIN record has both fields
C13_SolvedMinFields ==
    /\ [](\A s \in Records :
             s.status = "SOLVED_MIN" =>
                 s.detected_exit # None /\ s.solution_min # None)
    /\ [][\A r \in Requests :
             (/\ task[r].pc = "min"
              /\ task'[r].pc = "post"
              /\ Len(search_all_available_exits(MazeGrid, MazeStart).exits) = 1)
                 => LET s == maze_solutions'[req[r].solution.id]
                    IN  /\ s.status = "SOLVED_MIN"
                        /\ s.detected_exit # None
                        /\ s.solution_min # None]_vars

\* the run on a NEW record has just stored SOLVED_MIN
C13_Witness ==
    /\ task[1].pc = "post"
    /\ \E s \in Records : s.status = "SOLVED_MIN" /\ Len(s.solution_min) >= 3

\* C14: a run on a NEW record of a maze where two or more bottom-row cells
\* are reachable from the entrance stores INVALID_MULTIEXIT and sets
\* neither detected_exit nor solution_min
C14_MultiExitRecorded ==
    [][\A r \in Requests :
          (/\ task[r].pc = "min"
           /\ task'[r].pc \in {"post", "returned"}
           /\ GeometryValid
           /\ Passable(MazeStart)
           /\ Cardinality(ReachableFrom({MazeStart}) \cap BottomRow) >= 2)
              => LET s == maze_solutions'[req[r].solution.id]
                 IN  /\ s.status = "INVALID_MULTIEXIT"
                     /\ s.detected_exit = None
                     /\ s.solution_min = None]_vars

\* the run of request r on a maze whose entrance is a wall stores
\* INVALID_ENTRY_INWALL when it leaves the exit enumeration and returns null
InWallRun(r) ==
    /\ (task[r].pc = "min" /\ task'[r].pc # "min")
          => maze_solutions'[req[r].solution.id].status = "INVALID_ENTRY_INWALL"
    /\ (task[r].pc # "returned" /\ task'[r].pc = "returned")
          => /\ task'[r].ret = None
             /\ maze_solutions'[req[r].solution.id].status = "INVALID_ENTRY_INWALL"

\* C15 as stated: whenever the entrance is in the wall set, the run on a NEW
\* record ends INVALID_ENTRY_INWALL and returns null
C15_InWallAnyGrid ==
    [][\A r \in Requests : MazeStart \in MazeGrid.walls => InWallRun(r)]_vars

\* C15: on a grid that passes the geometry check, whenever the entrance is
\* in the wall set, the run on a NEW record ends INVALID_ENTRY_INWALL and
\* returns null
C15_InWallRecorded ==
    [][\A r \in Requests :
          (GeometryValid /\ MazeStart \in MazeGrid.walls) => InWallRun(r)]_vars

\* a finished run on a maze whose entrance is one of several walls and lies
\* outside the grid
C15_Witness ==
    /\ task[1].pc = "returned"
    /\ MazeStart \in MazeGrid.walls
    /\ ~InGrid(MazeStart)
    /\ Cardinality(MazeGrid.walls) >= 2
    /\ \E s \in Records : s.status = "INVALID_ENTRY_INWALL"

\* C16: a solution.save() that fails during a solver run does not leave the
\* worker as an uncaught exception
C16_StorageFailureRecorded ==
    \A r \in Requests : task[r].pc # "raised"

\* C17: a longest-path search that raised ends with the record's status
\* SYSTEM_FAIL
C17_SearchExceptionRecorded ==
    [][\A r \in Requests :
          (/\ task[r].pc = "maxend"
           /\ dfs[r].exc # "none"
           /\ task'[r].pc = "returned")
              => maze_solutions'[req[r].solution.id].status = "SYSTEM_FAIL"]_vars

\* C18: the permit count of the admission semaphore is between 0 and
\* solution_tasks_max_in_queue
C18_PermitRange ==
    semaphore \in 0..solution_tasks_max_in_queue

\* both permits are taken by submitted solver tasks
C18_Witness ==
    /\ semaphore = 0
    /\ \A r \in Requests : task[r].pc # "none" /\ ~task[r].cb

\* the handler of request r is about to call trigger_solver, which will get
\* to the pool branch: no error status, no stored path to answer with, the
\* copy not PROCESSING
ReachesAcquire(r) ==
    LET solution == req[r].solution
    IN  /\ req[r].pc = "check"
        /\ executor
        /\ solution.status \notin InvalidStatuses \cup {"PROCESSING", "SYSTEM_FAIL"}
        /\ ~(req[r].steps = "max" /\ solution.status = "FAILED_MAX")
        /\ ~(req[r].steps = "min" /\ solution.solution_min # None)
        /\ ~(req[r].steps = "max" /\ solution.solution_max # None)

\* C19: with the pool available and no permit free, the request is answered
\* 429, no task is submitted, and the permit count and the stored records
\* stay as they are
C19_NoPermitRejected ==
    [][\A r \in Requests :
          (ReachesAcquire(r) /\ semaphore = 0 /\ req'[r] # req[r])
              => /\ req'[r].pc = "done"
                 /\ req'[r].response = [code |-> 429, path |-> None]
                 /\ task'[r] = task[r]
                 /\ semaphore' = semaphore
                 /\ maze_solutions' = maze_solutions]_vars

\* a request was turned away while both permits were gone
C19_Witness ==
    \E r \in Requests :
        /\ req[r].pc = "done"
        /\ req[r].response.code = 429
        /\ semaphore = 0

\* request r was answered 500 by the timeout of res.result and its solver
\* task is still submitted or running
TimedOutRunning(r) ==
    /\ req[r].pc = "done"
    /\ req[r].response.code = 500
    /\ InFlight(r)

\* C20: a request that arrives between the timeout of another request and
\* the completion of that request's solver task loads the record as
\* PROCESSING, the one status the handler answers with 409
C20_InFlightAfterTimeout ==
    [][\A r1, r2 \in Requests :
          (/\ r1 # r2
           /\ TimedOutRunning(r1)
           /\ req[r2].pc \in {"idle", "done"}
           /\ req'[r2].pc \in {"create", "check"})
              => req'[r2].solution.status = "PROCESSING"]_vars

\* the completion callback of r's task hands back its permit in this step
Releases(r) == ~task[r].cb /\ task'[r].cb /\ semaphore' = semaphore + 1

\* no other request slot holds an object of r's record
Unshared(r) ==
    \A q \in Requests \ {r} : req[q].solution.id # req[r].solution.id

\* C21: when the completion callback of a task releases its permit, the task
\* has returned, so every save of the run has been made: the store holds the
\* run's final object (unless another request works on the same record), and
\* that object is what a request admitted afterwards reads
C21_FinalWriteBeforeRelease ==
    [][\A r \in Requests :
          Releases(r) =>
             /\ task[r].pc = "returned"
             /\ req[r].solution.id \in DOMAIN maze_solutions
             /\ Unshared(r) =>
                    /\ maze_solutions[req[r].solution.id] = req[r].solution
                    /\ req[r].solution.status \notin {"NEW"}]_vars

\* a max request admitted on the permit the finished min run released: it
\* read the SOLVED_MIN record
C21_Witness ==
    /\ task[1].cb /\ task[1].pc = "returned"
    /\ req[1].steps = "min" /\ req[1].solution.status = "SOLVED_MIN"
    /\ req[2].steps = "max" /\ req[2].pc = "waiting" /\ task[2].pc = "begin"
    /\ req[2].solution = req[1].solution
    /\ semaphore = solution_tasks_max_in_queue - 1

\* r's handler answers in this step
Answers(r) == req[r].pc # "done" /\ req'[r].pc = "done"

\* C22: a get_solution request whose solve ends in, or which finds the record
\* in, an INVALID_* status is answered 422, the request whose own run through
\* the pool discovered the status included; so is a mode=max request whose
\* own run ends FAILED_MAX
C22_InvalidAnswered422 ==
    [][\A r \in Requests :
          (/\ Answers(r)
           /\ \/ req[r].solution.status \in InvalidStatuses
              \/ req[r].steps = "max" /\ req[r].solution.status = "FAILED_MAX")
             => req'[r].response.code = 422]_vars

\* C23: every newly created maze gets a mazenum strictly greater than every
\* mazenum assigned to a maze of the same owner before, deleted ones included
C23_MazenumIncreasing ==
    [][Len(mazenums_assigned') = Len(mazenums_assigned) + 1 =>
          LET new == mazenums_assigned'[Len(mazenums_assigned')]
          IN  \A i \in DOMAIN mazenums_assigned :
                 mazenums_assigned[i][1] = new[1] => mazenums_assigned[i][2] < new[2]]_vars

\* C24: a step that deletes a maze (by number, by id, or in the deletion of
\* its owner) or deletes the owner leaves the solution store as it was
C24_DeleteKeepsSolutions ==
    [][(\/ DOMAIN mazes_table' # DOMAIN mazes_table
           /\ DOMAIN mazes_table' \subseteq DOMAIN mazes_table
        \/ users_table' # users_table)
          => maze_solutions' = maze_solutions]_vars

\* a solved record is stored, the owner's only maze has been deleted in the
\* deletion of the owner, and the other owner deleted a maze by its number
C24_Witness ==
    /\ maze_solutions # <<>>
    /\ maze_solutions[1].status = "SOLVED_MIN"
    /\ mazes_table = <<>>
    /\ mazenums_assigned = <<<<1, 1>>, <<2, 1>>>>
    /\ users_table = {2}
    /\ api[1].code = 204 /\ api[2].code = 204

\* C25: create_maze is idempotent per owner and fingerprint: a call that
\* finds a maze of the owner with the fingerprint returns that maze and adds
\* no record, and an owner never has two mazes with one fingerprint
C25_OneMazePerFingerprint ==
    /\ [](\A k, j \in DOMAIN mazes_table :
             (/\ mazes_table[k].owner_id = mazes_table[j].owner_id
              /\ mazes_table[k].hash = mazes_table[j].hash) => k = j)
    /\ [][\A c \in Callers :
             (/\ api[c].pc = "idle" /\ api'[c] # api[c]
              /\ api'[c].code = 201)
                => /\ mazes_table' = mazes_table
                   /\ api'[c].body \in {mazes_table[k] : k \in DOMAIN mazes_table}]_vars

\* the wall lists that are orderings of the same labels as walls
Orderings(walls) ==
    {p \in UniqueLists(Range(walls), Len(walls)) : Len(p) = Len(walls)}

\* C26: for a fixed entrance and grid size, every ordering of the same wall
\* labels has the fingerprint of the submitted wall list
C26_HashOrderIndependent ==
    (call.fn = "get_maze_hash" /\ call.done) =>
        \A p \in Orderings(call.input[3]) :
            static_get_maze_hash(call.input[1], call.input[2], p) = call.output

\* walls sent as B1, A2, A10 are digested in string order A10, A2, B1
C26_Witness ==
    /\ call.fn = "get_maze_hash" /\ call.done
    /\ call.input[3] = <<glt_str(<<1, 0>>), glt_str(<<0, 1>>), glt_str(<<0, 9>>)>>
    /\ call.output = call.input[2] \o call.input[1] \o glt_str(<<0, 9>>)
                        \o glt_str(<<0, 1>>) \o glt_str(<<1, 0>>)

\* C27: extracteinfo(to_excel(c) + str(r + 1)) = (c, r) for every column and
\* row of the bound, and to_excel is bijective base 26: letters only, decoded
\* by from_excel to the column, with 0 -> A, 25 -> Z, 26 -> AA, 701 -> ZZ,
\* 702 -> AAA
C27_CodecRoundTrip ==
    /\ (call.fn = "glt" /\ call.done) =>
          /\ call.output[2] = call.input
          /\ call.output[1] = to_excel_str(call.input[1]) \o str(call.input[2] + 1)
    /\ (call.fn = "to_excel" /\ call.done) =>
          /\ \A i \in DOMAIN call.output : IsUpper(call.output[i])
          /\ from_excel_str(call.output) - 1 = call.input
          /\ call.input = 0 => call.output = <<ord_A>>
          /\ call.input = 25 => call.output = <<ord_A + 25>>
          /\ call.input = 26 => call.output = <<ord_A, ord_A>>
          /\ call.input = 701 => call.output = <<ord_A + 25, ord_A + 25>>
          /\ call.input = 702 => call.output = <<ord_A, ord_A, ord_A>>

\* column 702, row 9 is written AAA10 and read back
C27_Witness ==
    /\ call.fn = "glt" /\ call.done
    /\ call.input = <<702, 9>>
    /\ call.output[1] = <<ord_A, ord_A, ord_A, ord_0 + 1, ord_0>>
    /\ call.output[2] = <<702, 9>>

\* r's search makes a loop iteration, or leaves the loop, in this step
Iterates(r) == task[r].pc = "dfs" /\ <<task[r], dfs[r]>>' # <<task[r], dfs[r]>>

\* C28: search_longest_path terminates: a running loop ends; every
\* iteration counts one pop, and the loop goes on only with a non-empty
\* frontier, a popped frame below the depth budget and a pop count below the
\* pop budget; when the loop ends the best goal node found so far (or none)
\* is what the search returns
C28_SearchTerminates ==
    /\ (task[1].pc = "dfs") ~> (task[1].pc = "maxend")
    /\ [][\A r \in Requests :
             Iterates(r) =>
                LET popped == dfs[r].frontier[Len(dfs[r].frontier)]
                    goal == extracteinfo(req[r].solution.detected_exit)
                IN  /\ dfs[r].frontier # <<>>
                    /\ task'[r].pc \in {"dfs", "maxend"}
                    /\ dfs'[r].whilecount = dfs[r].whilecount + 1
                    /\ task'[r].pc = "dfs" =>
                          /\ dfs'[r].frontier # <<>>
                          /\ Len(popped) < MaxRecurDepth
                          /\ dfs'[r].whilecount < MaxWhileCount
                    /\ task'[r].pc = "maxend" =>
                          \/ dfs'[r].frontier = <<>>
                          \/ Len(popped) >= MaxRecurDepth
                          \/ dfs'[r].whilecount >= MaxWhileCount
                    /\ \/ dfs'[r].best = dfs[r].best
                       \/ /\ dfs'[r].best = popped
                          /\ NodeLocation(popped) = goal
                          /\ dfs[r].best = None \/ Len(dfs[r].best) < Len(popped)]_vars

\* the loop of a 3 x 3 search ended on the empty frontier after more pops than
\* the grid has cells, with a goal node found
C28_Witness ==
    /\ task[1].pc = "maxend"
    /\ dfs[1].frontier = <<>> /\ ~dfs[1].brk /\ dfs[1].exc = "none"
    /\ dfs[1].whilecount > MaxWidth * MaxHeight
    /\ dfs[1].best # None

\* C29: when DETA_RUNTIME is "true" the worker pool is absent and every
\* solve runs inline: no request waits on a future, and no permit is acquired
\* or released
C29_DetaRunsInline ==
    deta_runtime_detected =>
        /\ ~executor
        /\ semaphore = solution_tasks_max_in_queue
        /\ \A r \in Requests : req[r].pc # "waiting" /\ ~task[r].cb

\* C30: the grid-size validation of maze input accepts the string of W and H
\* exactly when W >= 1 and H >= 2, and an accepted string is parsed back to
\* (W, H)
C30_GridSizeAccepted ==
    (call.fn = "grid_size" /\ call.done) =>
        /\ call.output[1] <=> (call.input[1] >= 1 /\ call.input[2] >= 2)
        /\ call.output[1] => call.output[2] = call.input

\* C31: every node on the frontier of the longest-path search has a parent
\* chain of pairwise distinct coordinates, the start coordinate included
C31_FrontierSimplePaths ==
    \A r \in Requests :
        \A i \in DOMAIN dfs[r].frontier : NoRepeats(dfs[r].frontier[i])

\* the cells of grid that 4-connected steps through passable cells lead to
\* from the cells of S
RECURSIVE GridReachable(_, _)
GridReachable(grid, S) ==
    LET N == S \cup {c \in Cells(grid.width, grid.height) :
                        c \notin grid.walls /\ \E s \in S : Adjacent(c, s)}
    IN  IF N = S THEN S ELSE GridReachable(grid, N)

\* the location handed to the search is a passable cell of the grid
PassableInBounds(c) ==
    /\ c.input.loc \in Cells(c.input.grid.width, c.input.grid.height)
    /\ c.input.loc \notin c.input.grid.walls

\* C32: for a passable in-bounds start, search_all_available_exits returns
\* exactly one node per bottom-row cell reachable from the start, the start
\* included when it lies on the bottom row
C32_ExitsExact ==
    (/\ call.fn = "search_all_available_exits"
     /\ PassableInBounds(call)
     /\ call.output.pc # "enter") =>
        /\ call.output.pc # "raised"
        /\ call.output.pc = "returned" =>
              LET exits == [i \in DOMAIN call.output.ret |->
                               NodeLocation(call.output.ret[i])]
              IN  /\ NoRepeats(exits)
                  /\ Range(exits) =
                        {c \in GridReachable(call.input.grid, {call.input.loc}) :
                            c[2] = call.input.grid.height - 1}

\* C33: no coordinate is pushed on the frontier of
\* search_all_available_exits more than once, the start coordinate included
C33_EnqueuedOnce ==
    call.fn = "search_all_available_exits" => NoRepeats(call.output.pushed)

\* C34: for a passable in-bounds goal, create_reachable_map_min returns
\* without raising, and returns exactly the passable cells from which the
\* goal is reachable
C34_ReachableMapExact ==
    (/\ call.fn = "create_reachable_map_min"
     /\ PassableInBounds(call)
     /\ call.output.pc # "enter") =>
        /\ call.output.pc # "raised"
        /\ call.output.pc = "returned" =>
              call.output.ret = GridReachable(call.input.grid, {call.input.loc})


\* the path of the mode that request r asks for is in the record it read
StoredFor(r) ==
    \/ req[r].steps = "min" /\ req[r].solution.solution_min # None
    \/ req[r].steps = "max" /\ req[r].solution.solution_max # None

StoredPath(r) ==
    IF req[r].steps = "min" THEN req[r].solution.solution_min
    ELSE req[r].solution.solution_max

\* the handler of request r goes from its status checks to its answer or to
\* trigger_solver
Checks(r) == req[r].pc = "check" /\ req'[r].pc # "check"

\* C35 as stated: a request for a mode whose path is stored returns the stored
\* path, acquires no permit, submits no task and leaves the record unchanged
C35_StoredPathReturned ==
    [][\A r \in Requests :
          (Checks(r) /\ StoredFor(r)) =>
              /\ req'[r].response = [code |-> 200, path |-> StoredPath(r)]
              /\ semaphore' = semaphore
              /\ task' = task
              /\ maze_solutions' = maze_solutions]_vars

\* C35: a request for a mode whose path is stored acquires no permit, submits
\* no task and leaves the record unchanged; it returns the stored path unless
\* the status of the record it read raises (409 while PROCESSING, 422, 500)
C35_StoredPathNoSolve ==
    [][\A r \in Requests :
          (Checks(r) /\ StoredFor(r)) =>
              /\ semaphore' = semaphore
              /\ task' = task
              /\ maze_solutions' = maze_solutions
              /\ LET e == raise_solution_error_if_needed(req[r].solution,
                                                         req[r].steps = "max")
                 IN  req'[r].response =
                        IF e # 0 THEN [code |-> e, path |-> None]
                        ELSE [code |-> 200, path |-> StoredPath(r)]]_vars

\* a request answered with the stored path of its mode, no task of its own
C35_Witness ==
    \E r \in Requests :
        /\ req[r].pc = "done"
        /\ StoredFor(r)
        /\ req[r].response = [code |-> 200, path |-> StoredPath(r)]
        /\ task[r] = NoTask


\* C36: a solver run that has ended left its record in a status other than
\* PROCESSING, in the object it worked on and in the store
C36_ProcessingNotResting ==
    \A r \in Requests :
        task[r].pc = "returned" =>
            /\ req[r].solution.status # "PROCESSING"
            /\ \A s \in Records : s.id = req[r].solution.id => s.status # "PROCESSING"


\* C37: the maze_solutions table holds at most one record for the
\* fingerprint of the maze, whatever the interleaving of the requests
C37_OneRecordPerFingerprint ==
    Cardinality(DOMAIN maze_solutions) <= 1


\* C38: a maze input that differs from the hashed one in entrance, grid size
\* or wall set is digested over a different byte string
C38_HashInjective ==
    (call.fn = "get_maze_hash" /\ call.done) =>
        \A other \in HashInputs \cup BoundaryHashInputs :
            (\/ other[1] # call.input[1]
             \/ other[2] # call.input[2]
             \/ Range(other[3]) # Range(call.input[3])) =>
                static_get_maze_hash(other[1], other[2], other[3]) # call.output


\* C39: no two mazes in the table have the same owner and the same mazenum
C39_MazenumUnique ==
    \A j, k \in DOMAIN mazes_table :
        (/\ mazes_table[j].owner_id = mazes_table[k].owner_id
         /\ mazes_table[j].mazenum = mazes_table[k].mazenum) => j = k


\* a step the max solve of request r takes: from the SOLVED_MIN record to
\* PROCESSING, an iteration of the search, the save of SOLVED_MAX or FAILED_MAX
MaxSolves(r) ==
    \/ task[r].pc = "post" /\ WantsMax(r) /\ task'[r].pc \in {"dfs", "maxend"}
    \/ task[r].pc = "dfs" /\ dfs'[r] # dfs[r]
    \/ task[r].pc = "maxend" /\ task'[r].pc = "returned"

\* C40: every step of a max solve of a SOLVED_MIN record leaves detected_exit
\* and solution_min of its object as they were and stores them with every
\* save, and a mode=min request that reads the SOLVED_MAX or FAILED_MAX
\* record is answered with the minimum path of the maze
C40_MaxSolveKeepsMin ==
    /\ [][\A r \in Requests :
             MaxSolves(r) =>
                 LET id == req[r].solution.id
                 IN  /\ req'[r].solution.detected_exit = req[r].solution.detected_exit
                     /\ req'[r].solution.solution_min = req[r].solution.solution_min
                     /\ maze_solutions' # maze_solutions =>
                           /\ maze_solutions'[id].detected_exit =
                                  req[r].solution.detected_exit
                           /\ maze_solutions'[id].solution_min =
                                  req[r].solution.solution_min]_vars
    /\ [][\A r \in Requests :
             (/\ Checks(r)
              /\ req[r].steps = "min"
              /\ req[r].solution.status \in {"SOLVED_MAX", "FAILED_MAX"}) =>
                 req'[r].response =
                    [code |-> 200,
                     path |-> solver_min(NewSolution(req[r].solution.id)).solution_min]]_vars

\* a mode=min request answered with the minimum path from a record whose max
\* solve stored a longer solution_max
C40_Witness ==
    \E r \in Requests :
        /\ req[r].pc = "done" /\ req[r].steps = "min"
        /\ req[r].solution.status = "SOLVED_MAX"
        /\ Len(req[r].solution.solution_max) > Len(req[r].solution.solution_min)
        /\ req[r].response = [code |-> 200, path |-> req[r].solution.solution_min]

============================================================================
